---- MODULE Spec2Model ----
(***************************************************************************)
(* photos2map: directory walk + EXIF GPS extraction + GPX / HTML-map       *)
(* renderers, driven by the root command's run handler.                    *)
(*                                                                         *)
(* Strings that the code takes apart (paths, file names, extensions) are   *)
(* sequences of one-character strings; strings that are only compared      *)
(* (output mode, log messages) are TLA+ strings.  Coordinates are integers *)
(* in units of 1e-4 degree.                                                *)
(***************************************************************************)
EXTENDS Integers, Sequences, FiniteSets, TLC

\* ------------------------------------------------------------------ bounds
\* Largest number of filesystem entries (root included) in a scanned tree.
MaxNodes == 3
\* Longest GeoData slice handed directly to a renderer.
MaxPoints == 2
\* most calls of the renderers in one process
MaxRenders == 2

\* ------------------------------------------------------- string operations
Sep == "/"
Dot == "."

\* strings.ToLower, on the characters that occur in the modelled names
LowerChar(c) ==
    CASE c = "J" -> "j" [] c = "P" -> "p" [] c = "E" -> "e"
      [] c = "G" -> "g" [] c = "N" -> "n" [] OTHER -> c

ToLower(s) == [i \in 1..Len(s) |-> LowerChar(s[i])]

\* filepath.Ext: the suffix beginning at the final dot in the final element
RECURSIVE ExtFrom(_, _)
ExtFrom(path, i) ==
    IF i < 1 \/ path[i] = Sep THEN <<>>
    ELSE IF path[i] = Dot THEN SubSeq(path, i, Len(path))
    ELSE ExtFrom(path, i - 1)

Ext(path) == ExtFrom(path, Len(path))

\* filepath.Base: the last element of the path
RECURSIVE LastSep(_, _)
LastSep(path, i) ==
    IF i < 1 THEN 0 ELSE IF path[i] = Sep THEN i ELSE LastSep(path, i - 1)

RECURSIVE StripTrailingSep(_)
StripTrailingSep(path) ==
    IF Len(path) > 0 /\ path[Len(path)] = Sep
    THEN StripTrailingSep(SubSeq(path, 1, Len(path) - 1))
    ELSE path

Base(path) ==
    IF path = <<>> THEN <<Dot>>
    ELSE LET p == StripTrailingSep(path)
             q == SubSeq(p, LastSep(p, Len(p)) + 1, Len(p))
         IN  IF q = <<>> THEN <<Sep>> ELSE q

HasSuffix(s, suf) ==
    /\ Len(s) >= Len(suf)
    /\ SubSeq(s, Len(s) - Len(suf) + 1, Len(s)) = suf

\* strings.TrimSuffix
TrimSuffix(s, suf) ==
    IF HasSuffix(s, suf) THEN SubSeq(s, 1, Len(s) - Len(suf)) ELSE s

\* filepath.Join(dir, name) as Walk uses it: the cleaned dir/name
Join(dir, name) ==
    IF dir = <<Dot>> THEN name ELSE dir \o <<Sep>> \o name

\* ------------------------------------------------------------- filesystem
\* File names that may occur in a scanned tree, in the lexical (byte) order
\* in which filepath.Walk lists a directory.
Names ==
    << <<".", "j", "p", "g">>,
       <<"a", ".", "j", "p", "g">>,
       <<"a", ".", "p", "n", "g">>,
       <<"b", ".", "J", "P", "E", "G">>,
       <<"c", ".", "t", "x", "t">>,
       <<"d", ".", "d", "n", "g">>,
       <<"e">> >>

\* What the host filesystem holds at an entry:
\*   dir            a readable directory
\*   dir_unreadable a directory whose listing fails (permission denied)
\*   lstat_err      an entry whose lstat fails (for the root: it is missing)
\*   gps            an image file with a decodable EXIF block and GPS tags
\*   open_err       a file that cannot be opened
\*   decode_err     a file whose EXIF cannot be decoded (corrupt, empty)
\*   no_gps         a file with a valid EXIF block without GPS tags
FileKinds == {"gps", "open_err", "decode_err", "no_gps"}
DirKinds == {"dir", "dir_unreadable"}
RootKinds == DirKinds \cup {"lstat_err"}
EntryKinds == DirKinds \cup {"lstat_err"} \cup FileKinds

\* ancestors-or-self of node i in tree t (a sequence of entries)
RECURSIVE AncSelf(_, _)
AncSelf(t, i) == IF i = 0 THEN {} ELSE {i} \cup AncSelf(t, t[i].parent)

\* t is a directory tree listed in walk order: every entry but the root lies
\* in a readable directory on the path to the entry before it, after that
\* directory's earlier entries in listing order
IsTree(t) ==
    /\ t[1].parent = 0
    /\ \A i \in 2..Len(t) :
         /\ t[i].parent \in AncSelf(t, i - 1)
         /\ t[t[i].parent].kind = "dir"
         /\ \A j \in 2..(i - 1) : t[j].parent = t[i].parent => t[j].nm < t[i].nm

\* the tree of n entries with root kind rk and, for the others, parents p,
\* names nm and kinds kd
MkTree(n, rk, p, nm, kd) ==
    [i \in 1..n |-> IF i = 1 THEN [parent |-> 0, nm |-> 0, kind |-> rk]
                    ELSE [parent |-> p[i], nm |-> nm[i], kind |-> kd[i]]]

ParentVecs(n) == { p \in [2..n -> 1..n] : \A i \in 2..n : p[i] < i }

\* GPS position stored in the EXIF block of entry i (1e-4 degree): distinct
\* for distinct entries, and in no monotone relation with the walk order
GPSLat(i) == 370000 + 1000 * ((4 * i) % 11)
GPSLon(i) == 0 - (1220000 + 1000 * ((5 * i) % 11))

\* ---------------------------------------------------------- configuration
DefaultDir == <<Dot>>
DefaultOutput == "html"
OutputModes == {"gpx", "html", "", "GPX"}

\* a variable of the environment or of .env: not set, or set to val
Unset(zero) == [set |-> FALSE, val |-> zero]
SetTo(v) == [set |-> TRUE, val |-> v]

\* neither the environment nor .env sets a PHOTOS2MAP_ variable
NoVars == [DEBUG |-> Unset(""), DIR |-> Unset(<<>>), OUTPUT |-> Unset("")]
NoEnv == [os |-> NoVars, file |-> NoVars]

\* strconv.ParseBool on the values used here
ParseBool(v) == v = "true"

\* variant: the values of .env replace those of the environment
\* (godotenv.Overload)
GetEnvVarsOverload(e) ==
    LET look(k) == IF e.file[k].set THEN e.file[k] ELSE e.os[k]
    IN  [Debug |-> IF look("DEBUG").set THEN ParseBool(look("DEBUG").val) ELSE FALSE,
         Dir |-> IF look("DIR").set THEN look("DIR").val ELSE DefaultDir,
         Output |-> IF look("OUTPUT").set THEN look("OUTPUT").val ELSE DefaultOutput]

\* config.GetEnvVars when it returns: godotenv.Load sets the variables of
\* .env that the environment does not set, then env.Parse fills the struct
\* from the environment, with envDefault (or the zero value) for what is
\* still not set
GetEnvVars(e) ==
    LET look(k) == IF e.os[k].set THEN e.os[k] ELSE e.file[k]
    IN  [Debug |-> IF look("DEBUG").set THEN ParseBool(look("DEBUG").val) ELSE FALSE,
         Dir |-> IF look("DIR").set THEN look("DIR").val ELSE DefaultDir,
         Output |-> IF look("OUTPUT").set THEN look("OUTPUT").val ELSE DefaultOutput]

\* variant: a flag counts as given when its value is not the default
EffectiveByValue(changed, flagVal, confVal, def) ==
    IF flagVal = def /\ confVal # def THEN confVal ELSE flagVal

\* run's choice between the value of a flag and the value of the config
Effective(changed, flagVal, confVal, def) ==
    IF ~changed /\ confVal # def THEN confVal ELSE flagVal

\* rootCmdPreRun's test for debug logging
DebugOn(flag, confDebug) == flag \/ confDebug

\* ------------------------------------------------------------------ state
VARIABLES
    fs,         \* the directory tree under the input directory
    flags,      \* the command line: [dirChanged, dir, outputChanged, output]
    conf,       \* config.GetEnvVars(): [Debug, Dir, Output]
    pc,         \* position of the process
    dir,        \* run: effective input directory
    outputType, \* run: effective output mode
    stack,      \* filepath.Walk: entries still to visit, in order
    gpsData,    \* ExtractGPSData: the accumulated []opts.GeoData
    visited,    \* entries on which the walk function was called, in order
    exifCalls,  \* ExtractEXIF calls, in order: [node, err]
    wpt,        \* GenerateGPX: g.Wpt
    series,     \* GenerateMap: the data of the "geo" series
    buf,        \* GenerateGPX: gpxData
    files,      \* content of out/output.gpx and out/map.html
    stdout,     \* lines printed to standard output
    log,        \* logrus messages
    calls,      \* how often each renderer was entered
    prev,       \* the two files as they were when a renderer was last called again
    environ,    \* PHOTOS2MAP_* in the process environment (os) and in .env (file)
    debugFlag,  \* the --debug flag: [changed, value]
    level,      \* the logrus level
    outDir      \* whether the directory out/ exists

vars == << fs, flags, conf, pc, dir, outputType, stack, gpsData, visited,
           exifCalls, wpt, series, buf, files, stdout, log, calls, prev,
           environ, debugFlag, level, outDir >>

\* a path of the out directory: no file, or a file with its content
ConfigErrMsg == "Error loading the configuration"
NoFile == [exists |-> FALSE, data |-> <<>>]
File(d) == [exists |-> TRUE, data |-> d]

\* variant: the file is opened without O_TRUNC
CreateNoTrunc(f) == IF f.exists THEN f ELSE File(<<>>)

\* variant: the directory is made when it is missing (os.MkdirAll)
CreateOutcomesWithMkdir == BOOLEAN

\* whether os.Create of a path in out/ can succeed: never without out/
CreateOutcomes == IF outDir THEN BOOLEAN ELSE {FALSE}

\* os.Create on a path holding f: the file is created or truncated
Create(f) == File(<<>>)

\* a write of d at offset 0 of the freshly opened file f
Write(f, d) == File(d \o SubSeq(f.data, Len(d) + 1, Len(f.data)))
\* a nil *gpx.WptType
NilWpt == [tag |-> "nil"]
Nil == "nil"

\* ------------------------------------------------------------ EXIF reader
\* variant: the error of x.LatLong() is dropped
ExtractEXIFDropsLatLongErr(i) ==
    LET k == fs[i].kind IN
    IF k \in {"open_err", "dir_unreadable", "lstat_err"}
    THEN [lat |-> 0, lon |-> 0, err |-> "open"]
    ELSE IF k \in {"decode_err", "dir"}
    THEN [lat |-> 0, lon |-> 0, err |-> "decode"]
    ELSE IF k = "no_gps"
    THEN [lat |-> 0, lon |-> 0, err |-> Nil]
    ELSE [lat |-> GPSLat(i), lon |-> GPSLon(i), err |-> Nil]

\* exif.ExtractEXIF(path), path naming entry i
ExtractEXIF(i) ==
    LET k == fs[i].kind IN
    IF k \in {"open_err", "dir_unreadable", "lstat_err"}
    THEN [lat |-> 0, lon |-> 0, err |-> "open"]
    ELSE IF k \in {"decode_err", "dir"}
    THEN [lat |-> 0, lon |-> 0, err |-> "decode"]
    ELSE IF k = "no_gps"
    THEN [lat |-> 0, lon |-> 0, err |-> "no_gps"]
    ELSE [lat |-> GPSLat(i), lon |-> GPSLon(i), err |-> Nil]

\* ------------------------------------------------------------------- walk
RECURSIVE PathIn(_, _, _)
PathIn(t, root, i) ==
    IF i = 1 THEN root ELSE Join(PathIn(t, root, t[i].parent), Names[t[i].nm])

PathOf(i) == PathIn(fs, dir, i)

RECURSIVE ChildrenFrom(_, _, _)
ChildrenFrom(t, i, j) ==
    IF j > Len(t) THEN <<>>
    ELSE IF t[j].parent = i THEN <<j>> \o ChildrenFrom(t, i, j + 1)
    ELSE ChildrenFrom(t, i, j + 1)

\* readDirNames of directory i, as entries
Children(i) == ChildrenFrom(fs, i, 1)

SupportedExts ==
    { <<".", "j", "p", "g">>, <<".", "j", "p", "e", "g">>, <<".", "p", "n", "g">> }

\* variant: the .dng case of the switch enabled as well
IsSupportedWithDNG(path) ==
    ToLower(Ext(path)) \in SupportedExts \cup { <<".", "d", "n", "g">> }

\* the walk function's switch: the extensions handed to exif.ExtractEXIF
IsSupported(path) == ToLower(Ext(path)) \in SupportedExts

\* an interface{} value holding a []float64
FloatSlice(s) == [typ |-> "[]float64", val |-> s]

\* variant: the Value also carries an altitude
GeoDataWithAlt(name, lon, lat) ==
    [Name |-> name, Value |-> FloatSlice(<<lon, lat, 0>>)]

\* opts.GeoData{Name: name, Value: []float64{lon, lat}}
GeoData(name, lon, lat) == [Name |-> name, Value |-> FloatSlice(<<lon, lat>>)]

\* the err argument filepath.Walk passes to the walk function for entry i
WalkErr(i) ==
    IF fs[i].kind = "lstat_err" THEN "lstat"
    ELSE IF fs[i].kind = "dir_unreadable" THEN "readdir"
    ELSE Nil

\* variant: the walk function also returns the error of a failed extraction
WalkFnRetExifErr(i, err) ==
    IF err # Nil THEN err
    ELSE IF IsSupported(PathOf(i)) /\ ExtractEXIF(i).err # Nil
    THEN ExtractEXIF(i).err
    ELSE Nil

\* variant: the walk function ignores the traversal error
WalkFnRetIgnoreErr(i, err) == Nil

\* the walk function's return value for entry i
WalkFnRet(i, err) == IF err # Nil THEN err ELSE Nil

\* variant: a file whose name is already in the slice is left out
AppendIfNewName(data, i) ==
    LET base == Base(PathOf(i))
        r == ExtractEXIF(i)
        name == TrimSuffix(base, Ext(base))
    IN  IF r.err = Nil /\ \A k \in 1..Len(data) : data[k].Name # name
        THEN Append(data, GeoData(name, r.lon, r.lat))
        ELSE data

\* variant: the entry is appended whatever ExtractEXIF returned
AppendAlways(data, i) ==
    LET base == Base(PathOf(i))
        r == ExtractEXIF(i)
    IN  Append(data, GeoData(TrimSuffix(base, Ext(base)), r.lon, r.lat))

\* variant: the new entry is put in front of the slice
PrependIfGPS(data, i) ==
    LET base == Base(PathOf(i))
        r == ExtractEXIF(i)
    IN  IF r.err = Nil
        THEN <<GeoData(TrimSuffix(base, Ext(base)), r.lon, r.lat)>> \o data
        ELSE data

\* gpsData after the walk function's case for a supported extension
AppendIfGPS(data, i) ==
    LET path == PathOf(i)
        base == Base(path)
        name == TrimSuffix(base, Ext(base))
        r == ExtractEXIF(i)
    IN  IF r.err = Nil THEN Append(data, GeoData(name, r.lon, r.lat)) ELSE data

\* ---------------------------------------------------------------- outputs
XMLHeader == [tag |-> "?xml", version |-> "1.0", encoding |-> "UTF-8"]
GPXOpen == [tag |-> "gpx", version |-> "1.1", creator |-> "photos2map"]
GPXClose == [tag |-> "/gpx"]
HTMLOpen == [tag |-> "html", title |-> "photos2map: GPS Image Map", map |-> "USA"]
HTMLClose == [tag |-> "/html"]

\* the type assertion and length check on data.Value
ValidCoords(v) == v.typ = "[]float64" /\ Len(v.val) = 2

\* variant: coords[0] taken as the latitude
WptOfUnswapped(data) ==
    IF ValidCoords(data.Value)
    THEN [tag |-> "wpt", Lat |-> data.Value.val[1], Lon |-> data.Value.val[2],
          Name |-> data.Name]
    ELSE NilWpt

\* the element GenerateGPX stores in g.Wpt[i] for data
WptOf(data) ==
    IF ValidCoords(data.Value)
    THEN [tag |-> "wpt", Lat |-> data.Value.val[2], Lon |-> data.Value.val[1],
          Name |-> data.Name]
    ELSE NilWpt

\* variant: the loop ends at the first element that is not a pair
BuildWptUntilInvalid(data) ==
    [i \in 1..Len(data) |->
        IF \A j \in 1..i : ValidCoords(data[j].Value)
        THEN WptOf(data[i]) ELSE NilWpt]

\* variant: the loop starts at the second element
BuildWptFromSecond(data) ==
    [i \in 1..Len(data) |-> IF i = 1 THEN NilWpt ELSE WptOf(data[i])]

\* g.Wpt after the loop over gpsData
BuildWpt(data) == [i \in 1..Len(data) |-> WptOf(data[i])]

\* variant: no root element for a GPX without waypoints
MarshalIndentNoneWhenEmpty(w) ==
    IF w = <<>> THEN <<>>
    ELSE <<GPXOpen>> \o SelectSeq(w, LAMBDA e : e # NilWpt) \o <<GPXClose>>

\* variant: the root element carries the number of the call
MarshalIndentStamped(w) ==
    << [GPXOpen EXCEPT !.creator = IF calls.gpx > 1 THEN "photos2map (again)" ELSE @] >>
       \o SelectSeq(w, LAMBDA e : e # NilWpt) \o <<GPXClose>>

\* xml.MarshalIndent(g): nil elements of g.Wpt produce no element
MarshalIndent(w) ==
    <<GPXOpen>> \o SelectSeq(w, LAMBDA e : e # NilWpt) \o <<GPXClose>>

\* geo.Render: the page with the series' points
RenderHTML(data) ==
    <<HTMLOpen>> \o [i \in 1..Len(data) |-> [tag |-> "point", data |-> data[i]]]
                 \o <<HTMLClose>>

InvalidMsgs(data) ==
    LET bad == SelectSeq(data, LAMBDA d : ~ValidCoords(d.Value))
    IN  [i \in 1..Len(bad) |-> "Invalid GPS data, skipping"]

\* ------------------------------------------------------------------- Init
\* the process at its start, in front of some directory tree
InitRun ==
    /\ \E n \in 1..MaxNodes, rk \in RootKinds :
         \E p \in ParentVecs(n), nm \in [2..n -> 1..Len(Names)],
            kd \in [2..n -> EntryKinds] :
           /\ IsTree(MkTree(n, rk, p, nm, kd))
           /\ fs = MkTree(n, rk, p, nm, kd)
    /\ flags \in { [dirChanged |-> FALSE, dir |-> DefaultDir,
                    outputChanged |-> FALSE, output |-> DefaultOutput] }
                 \cup { [dirChanged |-> FALSE, dir |-> DefaultDir,
                         outputChanged |-> TRUE, output |-> o] : o \in OutputModes }
    /\ conf = [Debug |-> FALSE, Dir |-> DefaultDir, Output |-> DefaultOutput]
    /\ pc = "start"
    /\ dir = <<>>
    /\ outputType = ""
    /\ stack = <<>>
    /\ gpsData = <<>>
    /\ visited = <<>>
    /\ exifCalls = <<>>
    /\ wpt = <<>>
    /\ series = <<>>
    /\ buf = <<>>
    /\ stdout = <<>>
    /\ log = <<>>
    /\ calls = [gpx |-> 0, map |-> 0]
    /\ environ = NoEnv
    /\ debugFlag = [changed |-> FALSE, value |-> FALSE]
    /\ level = "info"

\* a first run: neither output file exists
Init ==
    /\ InitRun
    /\ files = [gpx |-> NoFile, map |-> NoFile]
    /\ prev = files
    /\ outDir = TRUE

\* ---------------------------------------------------------------- actions
\* rootCmdPreRun, which cobra runs before run: config.GetEnvVars either
\* returns or prints its error and exits with status 1
PreRun ==
    /\ pc = "prerun"
    /\ \E loaded \in BOOLEAN :
         IF loaded
         THEN /\ level' = IF DebugOn(debugFlag.value, GetEnvVars(environ).Debug)
                          THEN "debug" ELSE level
              /\ pc' = "start"
              /\ UNCHANGED stdout
         ELSE /\ stdout' = Append(stdout, ConfigErrMsg)
              /\ pc' = "fatal"
              /\ UNCHANGED level
    /\ UNCHANGED << environ, debugFlag, outDir, prev, fs, flags, conf, dir, outputType,
                    stack, gpsData, visited, exifCalls, wpt, series, buf, files,
                    log, calls >>

\* run, up to the call of extract.ExtractGPSData(dir); config.GetEnvVars
\* either returns conf or prints its error and exits with status 1
Run ==
    /\ pc = "start"
    /\ \E loaded \in BOOLEAN :
         IF loaded
         THEN /\ conf' = GetEnvVars(environ)
              /\ dir' = Effective(flags.dirChanged, flags.dir, conf'.Dir, DefaultDir)
              /\ outputType' = Effective(flags.outputChanged, flags.output,
                                         conf'.Output, DefaultOutput)
              /\ stack' = <<1>>
              /\ pc' = "walk"
              /\ UNCHANGED stdout
         ELSE /\ stdout' = Append(stdout, ConfigErrMsg)
              /\ pc' = "fatal"
              /\ UNCHANGED << conf, dir, outputType, stack >>
    /\ UNCHANGED << environ, debugFlag, level, outDir, prev, fs, flags, gpsData, visited, exifCalls, wpt, series,
                    buf, files, log, calls >>

\* variant: the error of the walk is logged and ExtractGPSData returns what
\* it has gathered
WalkFnErrReturns ==
    /\ pc = "walk"
    /\ stack # <<>>
    /\ WalkFnRet(Head(stack), WalkErr(Head(stack))) # Nil
    /\ visited' = Append(visited, Head(stack))
    /\ log' = Append(log, "Error walking the directory")
    /\ stack' = <<>>
    /\ pc' = "scanned"
    /\ UNCHANGED << environ, debugFlag, level, outDir, prev, fs, flags, conf, dir, outputType, gpsData, exifCalls, wpt,
                    series, buf, files, stdout, calls >>

\* the walk function returns an error: Walk returns it, and ExtractGPSData
\* ends the process with log.Fatalf
WalkFnErr ==
    /\ pc = "walk"
    /\ stack # <<>>
    /\ WalkFnRet(Head(stack), WalkErr(Head(stack))) # Nil
    /\ visited' = Append(visited, Head(stack))
    /\ log' = Append(log, "Error walking the directory")
    /\ stack' = <<>>
    /\ pc' = "fatal"
    /\ UNCHANGED << environ, debugFlag, level, outDir, prev, fs, flags, conf, dir, outputType, gpsData, exifCalls, wpt,
                    series, buf, files, stdout, calls >>

\* the walk function returns nil on entry Head(stack), and Walk goes on
\* with the entries of a listed directory
WalkFn ==
    /\ pc = "walk"
    /\ stack # <<>>
    /\ LET i == Head(stack) IN
       /\ WalkFnRet(i, WalkErr(i)) = Nil
       /\ visited' = Append(visited, i)
       /\ IF WalkErr(i) = Nil /\ IsSupported(PathOf(i))
          THEN /\ exifCalls' = Append(exifCalls, [node |-> i, err |-> ExtractEXIF(i).err])
               /\ gpsData' = AppendIfGPS(gpsData, i)
          ELSE UNCHANGED << exifCalls, gpsData >>
       /\ stack' = (IF fs[i].kind = "dir" THEN Children(i) ELSE <<>>) \o Tail(stack)
    /\ UNCHANGED << environ, debugFlag, level, outDir, prev, fs, flags, conf, pc, dir, outputType, wpt, series, buf,
                    files, stdout, log, calls >>

\* filepath.Walk returns nil and ExtractGPSData returns gpsData to run
WalkReturn ==
    /\ pc = "walk"
    /\ stack = <<>>
    /\ pc' = "scanned"
    /\ UNCHANGED << environ, debugFlag, level, outDir, prev, fs, flags, conf, dir, outputType, stack, gpsData, visited,
                    exifCalls, wpt, series, buf, files, stdout, log, calls >>

\* variant: the test never fails
HasDataAlways(data) == Len(data) >= 0

\* run's test for a non-empty scan result
HasData(data) == Len(data) > 0

\* variant: every mode but the default selects GPX
UseGPXUnlessHTML(mode) == mode # "html"

\* run's choice of the renderer
UseGPX(mode) == mode = "gpx"

\* variant: a run that found no position removes the old output files
RunDispatchCleans ==
    /\ pc = "scanned"
    /\ IF HasData(gpsData)
       THEN /\ pc' = IF UseGPX(outputType) THEN "gpx_start" ELSE "map_start"
            /\ UNCHANGED << stdout, files >>
       ELSE /\ stdout' = Append(stdout, "No GPS data found in the images.")
            /\ files' = [gpx |-> NoFile, map |-> NoFile]
            /\ pc' = "done"
    /\ UNCHANGED << environ, debugFlag, level, outDir, prev, fs, flags, conf, dir,
                    outputType, stack, gpsData, visited, exifCalls, wpt, series,
                    buf, log, calls >>

\* run, after ExtractGPSData returned
RunDispatch ==
    /\ pc = "scanned"
    /\ IF HasData(gpsData)
       THEN /\ pc' = IF UseGPX(outputType) THEN "gpx_start" ELSE "map_start"
            /\ UNCHANGED stdout
       ELSE /\ stdout' = Append(stdout, "No GPS data found in the images.")
            /\ pc' = "done"
    /\ UNCHANGED << environ, debugFlag, level, outDir, prev, fs, flags, conf, dir, outputType, stack, gpsData, visited,
                    exifCalls, wpt, series, buf, files, log, calls >>

\* GenerateGPX: the GPX struct and the loop filling g.Wpt
GPXBuild ==
    /\ pc = "gpx_start"
    /\ wpt' = BuildWpt(gpsData)
    /\ log' = log \o InvalidMsgs(gpsData)
    /\ calls' = [calls EXCEPT !.gpx = @ + 1]
    /\ pc' = "gpx_create"
    /\ UNCHANGED << environ, debugFlag, level, outDir, prev, fs, flags, conf, dir, outputType, stack, gpsData, visited,
                    exifCalls, series, buf, files, stdout >>

\* GenerateGPX: os.Create("out/output.gpx")
GPXCreate ==
    /\ pc = "gpx_create"
    /\ \E ok \in CreateOutcomes :
         IF ok
         THEN /\ files' = [files EXCEPT !.gpx = Create(@)]
              /\ pc' = "gpx_marshal"
              /\ UNCHANGED log
         ELSE /\ log' = Append(log, "Error creating GPX file")
              /\ pc' = "fatal"
              /\ UNCHANGED files
    /\ UNCHANGED << environ, debugFlag, level, outDir, prev, fs, flags, conf, dir, outputType, stack, gpsData, visited,
                    exifCalls, wpt, series, buf, stdout, calls >>

\* variant: a failed xml.MarshalIndent ends the process
GPXMarshalFatal ==
    /\ pc = "gpx_marshal"
    /\ \E ok \in BOOLEAN :
         IF ok
         THEN /\ buf' = <<XMLHeader>> \o MarshalIndent(wpt)
              /\ pc' = "gpx_write"
              /\ UNCHANGED log
         ELSE /\ buf' = <<>>
              /\ log' = Append(log, "Error marshalling GPX struct to XML")
              /\ pc' = "fatal"
    /\ UNCHANGED << environ, debugFlag, level, outDir, prev, fs, flags, conf, dir, outputType, stack, gpsData, visited,
                    exifCalls, wpt, series, files, stdout, calls >>

\* GenerateGPX: xml.MarshalIndent and the prepended header
GPXMarshal ==
    /\ pc = "gpx_marshal"
    /\ \E ok \in BOOLEAN :
         IF ok
         THEN /\ buf' = <<XMLHeader>> \o MarshalIndent(wpt)
              /\ UNCHANGED log
         ELSE /\ buf' = <<XMLHeader>>
              /\ log' = Append(log, "Error marshalling GPX struct to XML")
    /\ pc' = "gpx_write"
    /\ UNCHANGED << environ, debugFlag, level, outDir, prev, fs, flags, conf, dir, outputType, stack, gpsData, visited,
                    exifCalls, wpt, series, files, stdout, calls >>

\* GenerateGPX: file.Write(gpxData), which may stop short with an error,
\* and the final log line
GPXWrite ==
    /\ pc = "gpx_write"
    /\ \E n \in 0..Len(buf) :
         /\ files' = [files EXCEPT !.gpx = Write(@, SubSeq(buf, 1, n))]
         /\ log' = (IF n < Len(buf)
                    THEN Append(log, "Error writing GPS data to GPX file")
                    ELSE log) \o <<"GPX file generated successfully.">>
    /\ pc' = "done"
    /\ UNCHANGED << environ, debugFlag, level, outDir, prev, fs, flags, conf, dir, outputType, stack, gpsData, visited,
                    exifCalls, wpt, series, buf, stdout, calls >>

\* variant: only the points with a pair of floats are added to the series
MapAddSeriesPairsOnly ==
    /\ pc = "map_start"
    /\ series' = SelectSeq(gpsData, LAMBDA d : ValidCoords(d.Value))
    /\ calls' = [calls EXCEPT !.map = @ + 1]
    /\ pc' = "map_create"
    /\ UNCHANGED << environ, debugFlag, level, outDir, prev, fs, flags, conf, dir,
                    outputType, stack, gpsData, visited, exifCalls, wpt, buf,
                    files, stdout, log >>

\* GenerateMap: charts.NewGeo and geo.AddSeries
MapAddSeries ==
    /\ pc = "map_start"
    /\ series' = gpsData
    /\ calls' = [calls EXCEPT !.map = @ + 1]
    /\ pc' = "map_create"
    /\ UNCHANGED << environ, debugFlag, level, outDir, prev, fs, flags, conf, dir, outputType, stack, gpsData, visited,
                    exifCalls, wpt, buf, files, stdout, log >>

\* variant: a failed os.Create is logged and GenerateMap returns
MapCreateReturns ==
    /\ pc = "map_create"
    /\ \E ok \in CreateOutcomes :
         IF ok
         THEN /\ files' = [files EXCEPT !.map = Create(@)]
              /\ pc' = "map_render"
              /\ UNCHANGED log
         ELSE /\ log' = Append(log, "Error creating map file")
              /\ pc' = "done"
              /\ UNCHANGED files
    /\ UNCHANGED << environ, debugFlag, level, outDir, prev, fs, flags, conf, dir, outputType, stack, gpsData, visited,
                    exifCalls, wpt, series, buf, stdout, calls >>

\* GenerateMap: os.Create("out/map.html")
MapCreate ==
    /\ pc = "map_create"
    /\ \E ok \in CreateOutcomes :
         IF ok
         THEN /\ files' = [files EXCEPT !.map = Create(@)]
              /\ pc' = "map_render"
              /\ UNCHANGED log
         ELSE /\ log' = Append(log, "Error creating map file")
              /\ pc' = "fatal"
              /\ UNCHANGED files
    /\ UNCHANGED << environ, debugFlag, level, outDir, prev, fs, flags, conf, dir, outputType, stack, gpsData, visited,
                    exifCalls, wpt, series, buf, stdout, calls >>

\* variant: a failed geo.Render ends the process
MapRenderFatal ==
    /\ pc = "map_render"
    /\ LET page == RenderHTML(series) IN
       \E n \in 0..Len(page) :
         /\ files' = [files EXCEPT !.map = Write(@, SubSeq(page, 1, n))]
         /\ IF n < Len(page)
            THEN /\ log' = Append(log, "Error rendering map file to html")
                 /\ pc' = "fatal"
            ELSE /\ log' = Append(log, "HTML map generated successfully.")
                 /\ pc' = "done"
    /\ UNCHANGED << environ, debugFlag, level, outDir, prev, fs, flags, conf, dir, outputType, stack, gpsData, visited,
                    exifCalls, wpt, series, buf, stdout, calls >>

\* GenerateMap: geo.Render(file), which may stop short with an error, and
\* the final log line
MapRender ==
    /\ pc = "map_render"
    /\ LET page == RenderHTML(series) IN
       \E n \in 0..Len(page) :
         /\ files' = [files EXCEPT !.map = Write(@, SubSeq(page, 1, n))]
         /\ log' = (IF n < Len(page)
                    THEN Append(log, "Error rendering map file to html")
                    ELSE log) \o <<"HTML map generated successfully.">>
    /\ pc' = "done"
    /\ UNCHANGED << environ, debugFlag, level, outDir, prev, fs, flags, conf, dir, outputType, stack, gpsData, visited,
                    exifCalls, wpt, series, buf, stdout, calls >>

Next ==
    \/ Run
    \/ WalkFnErr
    \/ WalkFn
    \/ WalkReturn
    \/ RunDispatch
    \/ GPXBuild
    \/ GPXCreate
    \/ GPXMarshal
    \/ GPXWrite
    \/ MapAddSeries
    \/ MapCreate
    \/ MapRender

Spec == Init /\ [][Next]_vars

\* ------------------------------------------- the renderers called directly
\* (as the package's tests and any other caller may): any GeoData slice,
\* its Value fields holding well-formed pairs or anything else
RenderNames ==
    { <<"I", "m", "a", "g", "e", "1">>, <<"I", "m", "a", "g", "e", "2">> }

RenderValues ==
    { FloatSlice(<<0 - 1276, 515074>>), FloatSlice(<<23522, 488566>>),
      FloatSlice(<<>>), FloatSlice(<<7>>), FloatSlice(<<1, 2, 3>>),
      [typ |-> "string", val |-> <<>>] }

RenderPoints == [Name : RenderNames, Value : RenderValues]

InitRender ==
    /\ fs = << [parent |-> 0, nm |-> 0, kind |-> "dir"] >>
    /\ flags = [dirChanged |-> FALSE, dir |-> DefaultDir,
                outputChanged |-> FALSE, output |-> DefaultOutput]
    /\ conf = [Debug |-> FALSE, Dir |-> DefaultDir, Output |-> DefaultOutput]
    /\ pc \in {"gpx_start", "map_start"}
    /\ dir = <<>>
    /\ outputType = ""
    /\ stack = <<>>
    /\ \E n \in 0..MaxPoints : gpsData \in [1..n -> RenderPoints]
    /\ visited = <<>>
    /\ exifCalls = <<>>
    /\ wpt = <<>>
    /\ series = <<>>
    /\ buf = <<>>
    /\ files = [gpx |-> NoFile, map |-> NoFile]
    /\ stdout = <<>>
    /\ log = <<>>
    /\ calls = [gpx |-> 0, map |-> 0]
    /\ environ = NoEnv
    /\ debugFlag = [changed |-> FALSE, value |-> FALSE]
    /\ level = "info"
    /\ prev = [gpx |-> NoFile, map |-> NoFile]
    /\ outDir = TRUE

NextRender ==
    \/ GPXBuild
    \/ GPXCreate
    \/ GPXMarshal
    \/ GPXWrite
    \/ MapAddSeries
    \/ MapCreate
    \/ MapRender

SpecRender == InitRender /\ [][NextRender]_vars

\* ------------------------------ the renderers called again, on old files
\* what an earlier process may have left in out/: three waypoints or points
\* of an image that is not among the inputs
OldPoint == [Name |-> <<"O", "l", "d">>, Value |-> FloatSlice(<<1, 2>>)]

OldGPX ==
    LET w == [tag |-> "wpt", Lat |-> 2, Lon |-> 1, Name |-> <<"O", "l", "d">>]
    IN  << XMLHeader, GPXOpen, w, w, w, GPXClose >>

OldPage ==
    LET pt == [tag |-> "point", data |-> OldPoint]
    IN  << HTMLOpen, pt, pt, pt, HTMLClose >>

InitRerender ==
    /\ fs = << [parent |-> 0, nm |-> 0, kind |-> "dir"] >>
    /\ flags = [dirChanged |-> FALSE, dir |-> DefaultDir,
                outputChanged |-> FALSE, output |-> DefaultOutput]
    /\ conf = [Debug |-> FALSE, Dir |-> DefaultDir, Output |-> DefaultOutput]
    /\ pc \in {"gpx_start", "map_start"}
    /\ dir = <<>>
    /\ outputType = ""
    /\ stack = <<>>
    /\ \E n \in 0..MaxPoints : gpsData \in [1..n -> RenderPoints]
    /\ visited = <<>>
    /\ exifCalls = <<>>
    /\ wpt = <<>>
    /\ series = <<>>
    /\ buf = <<>>
    /\ files \in [gpx : {NoFile, File(OldGPX)}, map : {NoFile, File(OldPage)}]
    /\ stdout = <<>>
    /\ log = <<>>
    /\ calls = [gpx |-> 0, map |-> 0]
    /\ environ = NoEnv
    /\ debugFlag = [changed |-> FALSE, value |-> FALSE]
    /\ level = "info"
    /\ prev = files
    /\ outDir = TRUE

\* the caller, a renderer having returned without an error in its log,
\* calls a renderer again with the same slice
Again ==
    /\ pc = "done"
    /\ calls.gpx + calls.map < MaxRenders
    /\ log[Len(log)] \in {"GPX file generated successfully.",
                         "HTML map generated successfully."}
    /\ Len(log) > 1 =>
          log[Len(log) - 1] \notin {"Error marshalling GPX struct to XML",
                                    "Error writing GPS data to GPX file",
                                    "Error rendering map file to html"}
    /\ pc' \in {"gpx_start", "map_start"}
    /\ prev' = files
    /\ UNCHANGED << environ, debugFlag, level, outDir, fs, flags, conf, dir, outputType, stack, gpsData, visited,
                    exifCalls, wpt, series, buf, files, stdout, log, calls >>

NextRerender ==
    \/ GPXBuild
    \/ GPXCreate
    \/ GPXMarshal
    \/ GPXWrite
    \/ MapAddSeries
    \/ MapCreate
    \/ MapRender
    \/ Again

SpecRerender == InitRerender /\ [][NextRerender]_vars

\* ------------------------------------------- a run over old output files
\* a later run: both files are there, left by an earlier one
InitStale ==
    /\ InitRun
    /\ files = [gpx |-> File(OldGPX), map |-> File(OldPage)]
    /\ prev = files
    /\ outDir = TRUE

SpecStale == InitStale /\ [][Next]_vars

\* ------------------------------------------------ a run with or without out/
\* a first run with the mode given on the command line, in a working
\* directory that has the directory out/ or not
InitOut ==
    /\ InitRun
    /\ flags.outputChanged
    /\ flags.output \in {"gpx", "html"}
    /\ outDir \in BOOLEAN
    /\ files = [gpx |-> NoFile, map |-> NoFile]
    /\ prev = files

SpecOut == InitOut /\ [][Next]_vars

\* ------------------------------- the command with its flags and settings
\* the directory named on the command line or in a setting
OtherDir == <<"e">>

DirSettings == {Unset(<<>>), SetTo(DefaultDir), SetTo(OtherDir)}
OutputSettings == {Unset(""), SetTo("html"), SetTo("gpx")}
DebugSettings == {Unset(""), SetTo("true"), SetTo("false")}
VarSettings == [DEBUG : DebugSettings, DIR : DirSettings, OUTPUT : OutputSettings]

\* the command is started in front of a directory with one image, or of a
\* missing directory, with any flags given or not and any of the variables
\* set or not in the environment and in .env
InitConfig ==
    /\ fs \in { << [parent |-> 0, nm |-> 0, kind |-> "dir"],
                    [parent |-> 1, nm |-> 2, kind |-> "gps"] >>,
                 << [parent |-> 0, nm |-> 0, kind |-> "lstat_err"] >> }
    /\ flags \in { [dirChanged |-> dc, dir |-> d, outputChanged |-> oc, output |-> o] :
                      dc \in BOOLEAN, d \in {DefaultDir, OtherDir},
                      oc \in BOOLEAN, o \in {"html", "gpx"} }
    /\ ~flags.dirChanged => flags.dir = DefaultDir
    /\ ~flags.outputChanged => flags.output = DefaultOutput
    /\ debugFlag \in { [changed |-> FALSE, value |-> FALSE],
                        [changed |-> TRUE, value |-> FALSE],
                        [changed |-> TRUE, value |-> TRUE] }
    /\ environ \in [os : VarSettings, file : VarSettings]
    /\ conf = [Debug |-> FALSE, Dir |-> <<>>, Output |-> ""]
    /\ pc = "prerun"
    /\ dir = <<>>
    /\ outputType = ""
    /\ stack = <<>>
    /\ gpsData = <<>>
    /\ visited = <<>>
    /\ exifCalls = <<>>
    /\ wpt = <<>>
    /\ series = <<>>
    /\ buf = <<>>
    /\ files = [gpx |-> NoFile, map |-> NoFile]
    /\ stdout = <<>>
    /\ log = <<>>
    /\ calls = [gpx |-> 0, map |-> 0]
    /\ level = "info"
    /\ prev = files
    /\ outDir = TRUE

NextConfig ==
    \/ PreRun
    \/ Next

SpecConfig == InitConfig /\ [][NextConfig]_vars

\* ------------------------------------------------------------ properties
Range(s) == { s[i] : i \in DOMAIN s }

IsPrefix(a, b) == Len(a) <= Len(b) /\ SubSeq(b, 1, Len(a)) = a

\* the process was ended by ExtractGPSData's log.Fatalf
WalkFatal ==
    pc = "fatal" /\ log # <<>> /\ log[Len(log)] = "Error walking the directory"

\* entries of the tree at which the walk meets a traversal error
TraversalErrs ==
    { i \in 1..Len(fs) : fs[i].kind \in {"lstat_err", "dir_unreadable"} }

\* the position stored in the EXIF block of entry i, as the scanner keeps it
StoredAt(i) == FloatSlice(<<GPSLon(i), GPSLat(i)>>)

\* path ends, whatever the case of its letters, in one of the image extensions
HasImageExt(path) ==
    \E e \in { <<".", "j", "p", "g">>, <<".", "j", "p", "e", "g">>,
               <<".", "p", "n", "g">> } : HasSuffix(ToLower(path), e)

NoDataMsg == "No GPS data found in the images."

\* ExtractGPSData has returned its result to run
ScanReturned ==
    /\ pc \notin {"start", "walk"}
    /\ pc = "fatal" => calls.gpx + calls.map > 0

\* C1: every entry of gpsData comes from a visited path on which ExtractEXIF
\* returned no error, and there are no more entries than such calls: a path
\* whose extraction failed contributes nothing.
C1_OnlySuccessfulExtractions ==
    /\ \A k \in 1..Len(gpsData) :
         \E j \in 1..Len(exifCalls) :
           /\ exifCalls[j].err = Nil
           /\ exifCalls[j].node \in Range(visited)
           /\ fs[exifCalls[j].node].kind = "gps"
           /\ gpsData[k].Value = StoredAt(exifCalls[j].node)
    /\ Len(gpsData) <= Cardinality({ j \in 1..Len(exifCalls) : exifCalls[j].err = Nil })

C1_Witness ==
    /\ pc = "scanned"
    /\ Len(gpsData) = 1
    /\ \E j \in 1..Len(exifCalls) : exifCalls[j].err = "no_gps"

\* C2: a failed extraction never ends the walk: the process dies in the walk
\* only at a traversal error, and once the walk is over every entry up to
\* the first traversal error (all of them when there is none) was visited.
C2_ExtractionFailureIsLocal ==
    LET last == IF TraversalErrs = {} THEN Len(fs)
                ELSE CHOOSE i \in TraversalErrs : \A j \in TraversalErrs : i <= j
    IN  /\ WalkFatal => TraversalErrs # {}
        /\ (ScanReturned \/ WalkFatal) => visited = [j \in 1..last |-> j]

C2_Witness ==
    /\ pc = "scanned"
    /\ Len(fs) = 3
    /\ fs[2].kind = "decode_err"
    /\ fs[3].kind = "gps"
    /\ exifCalls = << [node |-> 2, err |-> "decode"], [node |-> 3, err |-> Nil] >>
    /\ visited = <<1, 2, 3>>
    /\ Len(gpsData) = 1

C4_TraversalErrorIsFatal ==
    \A j \in 1..Len(visited) :
        visited[j] \in TraversalErrs =>
            /\ WalkFatal
            /\ j = Len(visited)
            /\ calls = [gpx |-> 0, map |-> 0]
            /\ files = [gpx |-> NoFile, map |-> NoFile]

C4_Witness ==
    /\ WalkFatal
    /\ Len(visited) = 3
    /\ fs[3].kind = "dir_unreadable"
    /\ Len(gpsData) = 1

\* C5: when the scan has returned an empty sequence, run only prints the
\* "No GPS data found" line and ends normally: no renderer is entered, no
\* file exists and nothing is logged, whatever the output mode.
C5_NoDataIsInformational ==
    (ScanReturned /\ gpsData = <<>>) =>
        /\ pc \in {"scanned", "done"}
        /\ calls = [gpx |-> 0, map |-> 0]
        /\ files = [gpx |-> NoFile, map |-> NoFile]
        /\ log = <<>>
        /\ pc = "scanned" => stdout = <<>>
        /\ pc = "done" => stdout = <<NoDataMsg>>

C5_Witness ==
    /\ pc = "done"
    /\ gpsData = <<>>
    /\ outputType = "gpx"
    /\ stdout = <<NoDataMsg>>
    /\ \E j \in 1..Len(exifCalls) : exifCalls[j].err = "no_gps"

\* C6: with a non-empty scan result, the mode "gpx" and no other enters
\* GenerateGPX, every other mode enters GenerateMap, and the renderer chosen
\* is entered once and the other one never.
C6_ModeSelectsRenderer ==
    (ScanReturned /\ pc # "scanned" /\ gpsData # <<>>) =>
        IF outputType = "gpx"
        THEN /\ pc \in {"gpx_start", "gpx_create", "gpx_marshal", "gpx_write",
                        "done", "fatal"}
             /\ calls = [gpx |-> IF pc = "gpx_start" THEN 0 ELSE 1, map |-> 0]
        ELSE /\ pc \in {"map_start", "map_create", "map_render", "done", "fatal"}
             /\ calls = [gpx |-> 0, map |-> IF pc = "map_start" THEN 0 ELSE 1]

C6_Witness ==
    /\ pc = "done"
    /\ outputType = "GPX"
    /\ calls = [gpx |-> 0, map |-> 1]
    /\ files.map.exists

\* C7: a run that has ended is in exactly one of three outcomes: one output
\* file created and a clean exit without the no-data line; a fatal exit
\* after a diagnostic; the no-data line, no file and a clean exit.  Never
\* are both files created.
OneArtifact ==
    /\ pc = "done"
    /\ files.gpx.exists # files.map.exists
    /\ stdout = <<>>

FatalExit ==
    /\ pc = "fatal"
    /\ \/ /\ log # <<>>
          /\ log[Len(log)] \in {"Error walking the directory",
                                "Error creating GPX file", "Error creating map file"}
       \/ stdout = <<ConfigErrMsg>>

NoDataExit ==
    /\ pc = "done"
    /\ stdout = <<NoDataMsg>>
    /\ ~files.gpx.exists
    /\ ~files.map.exists

C7_ThreeOutcomes ==
    /\ ~(files.gpx.exists /\ files.map.exists)
    /\ pc \in {"done", "fatal"} =>
         /\ OneArtifact \/ FatalExit \/ NoDataExit
         /\ ~(OneArtifact /\ NoDataExit)

C7_Witness ==
    /\ OneArtifact
    /\ files.gpx.exists
    /\ Len(gpsData) = 2

\* the wpt elements of the written GPX file, in document order
WrittenWpts == SelectSeq(files.gpx.data, LAMBDA e : e.tag = "wpt")

\* GenerateGPX has returned after marshalling and writing without error
GPXComplete ==
    /\ pc = "done"
    /\ calls.gpx = 1
    /\ "Error marshalling GPX struct to XML" \notin Range(log)
    /\ "Error writing GPS data to GPX file" \notin Range(log)

\* Value holds a sequence of exactly two floats
IsPair(v) == v.typ = "[]float64" /\ Len(v.val) = 2

\* C8: for an input of well-formed GeoPoints, the written GPX document has
\* exactly one wpt element per input point, the i-th element being the one
\* of the i-th point.
C8_OneWptPerPoint ==
    (GPXComplete /\ \A i \in 1..Len(gpsData) : IsPair(gpsData[i].Value)) =>
        /\ Len(WrittenWpts) = Len(gpsData)
        /\ \A i \in 1..Len(gpsData) :
             /\ WrittenWpts[i].Name = gpsData[i].Name
             /\ {WrittenWpts[i].Lat, WrittenWpts[i].Lon} = Range(gpsData[i].Value.val)

C8_Witness ==
    /\ GPXComplete
    /\ Len(gpsData) = 2
    /\ \A i \in 1..2 : IsPair(gpsData[i].Value)
    /\ gpsData[1] # gpsData[2]
    /\ Len(WrittenWpts) = 2

\* C9: the waypoint written for a GeoPoint with Value [lon, lat] and Name n
\* has lat equal to the second element, lon equal to the first, and name n.
C9_LatLonUnswapped ==
    GPXComplete =>
        \A i \in 1..Len(gpsData) :
            IsPair(gpsData[i].Value) =>
                LET r == Cardinality({ j \in 1..i : IsPair(gpsData[j].Value) })
                IN  /\ r <= Len(WrittenWpts)
                    /\ WrittenWpts[r].Lat = gpsData[i].Value.val[2]
                    /\ WrittenWpts[r].Lon = gpsData[i].Value.val[1]
                    /\ WrittenWpts[r].Name = gpsData[i].Name

C9_Witness ==
    /\ GPXComplete
    /\ Len(gpsData) = 1
    /\ gpsData[1] = [Name |-> <<"I", "m", "a", "g", "e", "1">>,
                     Value |-> FloatSlice(<<0 - 1276, 515074>>)]
    /\ WrittenWpts = << [tag |-> "wpt", Lat |-> 515074, Lon |-> 0 - 1276,
                         Name |-> <<"I", "m", "a", "g", "e", "1">>] >>

\* gpsData lists its entries in the order in which the walk visited the
\* files whose positions they hold
InVisitOrder ==
    \A k, l \in 1..Len(gpsData) :
        k < l =>
            \A a, b \in 1..Len(visited) :
                (/\ gpsData[k].Value = StoredAt(visited[a])
                 /\ gpsData[l].Value = StoredAt(visited[b])) => a < b

\* C10: every step only appends to gpsData, and the entries stand in the
\* order in which the walk visited their source paths.
C10_TraversalOrder == [][IsPrefix(gpsData, gpsData') /\ InVisitOrder']_vars

C10_Witness ==
    /\ pc = "scanned"
    /\ Len(gpsData) = 2
    /\ gpsData[1].Value.val[2] > gpsData[2].Value.val[2]
    /\ gpsData[1].Value.val[1] < gpsData[2].Value.val[1]

\* the visited entries that are files with an image extension and a readable
\* position, in the order of their visits
GPSImagesVisited ==
    SelectSeq(visited, LAMBDA i : /\ fs[i].kind = "gps"
                                  /\ HasImageExt(PathOf(i)))

\* C11: gpsData holds exactly one entry for each visited path with an image
\* extension whose extraction succeeded, in the order of the visits, two
\* paths with the same base name each keeping their entry.
C11_NoDeduplication ==
    /\ Len(gpsData) = Len(GPSImagesVisited)
    /\ \A k \in 1..Len(gpsData) : gpsData[k].Value = StoredAt(GPSImagesVisited[k])

C11_Witness ==
    /\ pc = "scanned"
    /\ Len(gpsData) = 2
    /\ gpsData[1].Name = gpsData[2].Name
    /\ gpsData[1].Value # gpsData[2].Value
    /\ Ext(PathOf(visited[2])) # Ext(PathOf(visited[3]))

\* C12: only regular files are handed to ExtractEXIF: no call is made on a
\* directory, whatever its name.
C12_RegularFilesOnly ==
    \A j \in 1..Len(exifCalls) : fs[exifCalls[j].node].kind \in FileKinds

\* C13: in GenerateGPX a failed creation of the file and a failed write to
\* it both end the process: after either, GenerateGPX neither returns nor
\* reports success.
C13_CreateAndWriteFatal ==
    /\ "Error creating GPX file" \in Range(log) =>
          /\ pc = "fatal"
          /\ "GPX file generated successfully." \notin Range(log)
    /\ "Error writing GPS data to GPX file" \in Range(log) =>
          /\ pc = "fatal"
          /\ "GPX file generated successfully." \notin Range(log)

MarshalErrMsg == "Error marshalling GPX struct to XML"
RenderErrMsg == "Error rendering map file to html"

\* C14: a failed XML marshalling in GenerateGPX and a failed rendering in
\* GenerateMap are logged and do not end the process: the file created
\* before stays, holding at most the header (GPX) or a part of the page
\* (map), and the renderer goes on to its last line and returns.
C14_SerializationFailureNotFatal ==
    /\ MarshalErrMsg \in Range(log) =>
          /\ pc \in {"gpx_write", "done"}
          /\ files.gpx.exists
          /\ IsPrefix(files.gpx.data, <<XMLHeader>>)
          /\ pc = "done" => log[Len(log)] = "GPX file generated successfully."
    /\ RenderErrMsg \in Range(log) =>
          /\ pc = "done"
          /\ files.map.exists
          /\ IsPrefix(files.map.data, RenderHTML(gpsData))
          /\ files.map.data # RenderHTML(gpsData)
          /\ log[Len(log)] = "HTML map generated successfully."

C14_Witness ==
    /\ pc = "done"
    /\ Len(gpsData) = 2
    /\ log = << MarshalErrMsg, "GPX file generated successfully." >>
    /\ files.gpx = File(<<XMLHeader>>)

MapCreateErrMsg == "Error creating map file"

\* C15: in GenerateMap a failed creation of out/map.html ends the process
\* with nothing rendered (no byte written, no rendering error or success
\* line logged after it), while a failed rendering is logged and followed by
\* GenerateMap's last line and its normal return.
C15_MapCreateFatalRenderLogged ==
    /\ MapCreateErrMsg \in Range(log) =>
          /\ pc = "fatal"
          /\ log[Len(log)] = MapCreateErrMsg
          /\ RenderErrMsg \notin Range(log)
          /\ files.map = NoFile
    /\ pc = "map_render" => files.map = File(<<>>)
    /\ RenderErrMsg \in Range(log) =>
          /\ pc = "done"
          /\ MapCreateErrMsg \notin Range(log)
          /\ SubSeq(log, Len(log) - 1, Len(log))
                = << RenderErrMsg, "HTML map generated successfully." >>

C15_Witness ==
    /\ pc = "done"
    /\ calls.map = 1
    /\ Len(gpsData) = 2
    /\ RenderErrMsg \in Range(log)
    /\ files.map = File(<<HTMLOpen, [tag |-> "point", data |-> gpsData[1]]>>)

GPXSuccessMsg == "GPX file generated successfully."
MapSuccessMsg == "HTML map generated successfully."

\* the renderer called last was GenerateGPX, and it has returned having
\* met no marshalling and no write error
GPXRendered ==
    /\ pc = "done"
    /\ log[Len(log)] = GPXSuccessMsg
    /\ Len(log) > 1 =>
          log[Len(log) - 1] \notin {MarshalErrMsg, "Error writing GPS data to GPX file"}

\* the renderer called last was GenerateMap, and it has returned having met
\* no rendering error
MapRendered ==
    /\ pc = "done"
    /\ log[Len(log)] = MapSuccessMsg
    /\ Len(log) > 1 => log[Len(log) - 1] # RenderErrMsg

\* C16: after a successful render the renderer's own file holds the document
\* of the current input and nothing else, whatever the file held before
\* (nothing, an older and longer document, the result of an earlier call),
\* and while a renderer runs the other renderer's file stays as it was.
C16_RenderReplacesFile ==
    /\ GPXRendered =>
          files.gpx = File(<<XMLHeader>> \o MarshalIndent(BuildWpt(gpsData)))
    /\ MapRendered => files.map = File(RenderHTML(gpsData))
    /\ pc \in {"gpx_create", "gpx_marshal", "gpx_write"} => files.map = prev.map
    /\ pc \in {"map_create", "map_render"} => files.gpx = prev.gpx
    /\ GPXRendered => files.map = prev.map
    /\ MapRendered => files.gpx = prev.gpx

C16_Witness ==
    /\ GPXRendered
    /\ calls = [gpx |-> 1, map |-> 0]
    /\ prev.gpx = File(OldGPX)
    /\ Len(gpsData) = 1
    /\ ValidCoords(gpsData[1].Value)
    /\ Len(files.gpx.data) = 4

\* the well-formed points of the input, in input order
WellFormed == SelectSeq(gpsData, LAMBDA d : IsPair(d.Value))

\* C17: GenerateGPX logs one diagnostic for each GeoPoint whose Value is not
\* a pair of floats and goes on: only a failed file creation ends it, and
\* the written document has the wpt elements of exactly the well-formed
\* points, before and after a malformed one, in input order.
C17_MalformedPointSkipped ==
    /\ calls.gpx = 1 =>
          Cardinality({ j \in 1..Len(log) : log[j] = "Invalid GPS data, skipping" })
            = Len(gpsData) - Len(WellFormed)
    /\ (calls.gpx = 1 /\ pc = "fatal") => log[Len(log)] = "Error creating GPX file"
    /\ GPXComplete =>
          /\ Len(WrittenWpts) = Len(WellFormed)
          /\ \A k \in 1..Len(WellFormed) :
               /\ WrittenWpts[k].Name = WellFormed[k].Name
               /\ <<WrittenWpts[k].Lon, WrittenWpts[k].Lat>> = WellFormed[k].Value.val

C17_Witness ==
    /\ GPXComplete
    /\ Len(gpsData) = 2
    /\ gpsData[1].Value = FloatSlice(<<1, 2, 3>>)
    /\ IsPair(gpsData[2].Value)
    /\ log = << "Invalid GPS data, skipping", "GPX file generated successfully." >>
    /\ Len(WrittenWpts) = 1
    /\ WrittenWpts[1].Name = gpsData[2].Name

C19_FailureHaltsRun ==
    /\ (\E j \in 1..Len(visited) : visited[j] \in TraversalErrs) =>
          /\ WalkFatal
          /\ visited[Len(visited)] \in TraversalErrs
          /\ \A j \in 1..(Len(visited) - 1) : visited[j] \notin TraversalErrs
          /\ stack = <<>>
          /\ calls = [gpx |-> 0, map |-> 0]
          /\ wpt = <<>> /\ series = <<>> /\ buf = <<>>
          /\ files = prev
    /\ (\E m \in {"Error creating GPX file", MapCreateErrMsg} : m \in Range(log)) =>
          /\ pc = "fatal"
          /\ log[Len(log)] \in {"Error creating GPX file", MapCreateErrMsg}
          /\ buf = <<>>
          /\ files = prev

C19_Witness ==
    /\ WalkFatal
    /\ Len(visited) = 3
    /\ visited[3] \in TraversalErrs
    /\ Len(gpsData) = 1
    /\ files = [gpx |-> File(OldGPX), map |-> File(OldPage)]

\* C20: every call of ExtractEXIF got an error when the path could not be
\* opened, when the file's EXIF block could not be decoded and when the file
\* had no GPS tags, and no error only for a file with all three in order;
\* the calls that got an error left no entry in gpsData.
C20_ExtractEXIFErrors ==
    /\ \A j \in 1..Len(exifCalls) :
          LET k == fs[exifCalls[j].node].kind
              err == exifCalls[j].err
          IN  /\ k = "open_err" => err # Nil
              /\ k = "decode_err" => err # Nil
              /\ k = "no_gps" => err # Nil
              /\ err = Nil => k = "gps"
    /\ Len(gpsData) = Cardinality({ j \in 1..Len(exifCalls) : exifCalls[j].err = Nil })

C20_Witness ==
    /\ pc = "scanned"
    /\ Len(exifCalls) = 2
    /\ exifCalls[1].err = "open"
    /\ exifCalls[2].err = "no_gps"
    /\ gpsData = <<>>

\* run has loaded the configuration and chosen its directory and mode
ConfigChosen ==
    /\ pc \notin {"prerun", "start"}
    /\ ConfigErrMsg \notin Range(stdout)

\* the value a setting has by the order environment, .env, default
Setting(k, def) ==
    IF environ.os[k].set THEN environ.os[k].val
    ELSE IF environ.file[k].set THEN environ.file[k].val
    ELSE def

\* C21: the directory and the mode run works with are the flag's value
\* whenever the flag was given, also when that value is the default, else the
\* value of the environment, else that of .env, else the default.
C21_FlagEnvDotenvDefault ==
    ConfigChosen =>
        /\ dir = IF flags.dirChanged THEN flags.dir ELSE Setting("DIR", DefaultDir)
        /\ outputType = IF flags.outputChanged THEN flags.output
                        ELSE Setting("OUTPUT", DefaultOutput)

C21_Witness ==
    /\ pc = "done"
    /\ flags = [dirChanged |-> TRUE, dir |-> DefaultDir,
                outputChanged |-> TRUE, output |-> "html"]
    /\ environ.os.DIR = SetTo(OtherDir)
    /\ environ.os.OUTPUT = SetTo("gpx")
    /\ dir = DefaultDir
    /\ calls = [gpx |-> 0, map |-> 1]

\* C22: debug logging is on exactly when the --debug flag, if it was given,
\* says so, and else when PHOTOS2MAP_DEBUG (environment, then .env, then
\* off) says so: a given --debug=false is final.
C22_DebugFlagFirst ==
    ConfigChosen =>
        (level = "debug") = (IF debugFlag.changed THEN debugFlag.value
                             ELSE Setting("DEBUG", "false") = "true")

\* C23: the configuration GetEnvVars returned has, for each of Debug, Dir and
\* Output on its own, the value of the environment when the environment sets
\* the variable, else the value of .env when .env sets it, else the default
\* false, "." or "html".
C23_EnvOverDotenvOverDefault ==
    ConfigChosen =>
        /\ conf.Debug = IF environ.os.DEBUG.set THEN environ.os.DEBUG.val = "true"
                        ELSE IF environ.file.DEBUG.set THEN environ.file.DEBUG.val = "true"
                        ELSE FALSE
        /\ conf.Dir = IF environ.os.DIR.set THEN environ.os.DIR.val
                      ELSE IF environ.file.DIR.set THEN environ.file.DIR.val
                      ELSE <<".">>
        /\ conf.Output = IF environ.os.OUTPUT.set THEN environ.os.OUTPUT.val
                         ELSE IF environ.file.OUTPUT.set THEN environ.file.OUTPUT.val
                         ELSE "html"

C23_Witness ==
    /\ ConfigChosen
    /\ environ.os = [DEBUG |-> Unset(""), DIR |-> SetTo(OtherDir), OUTPUT |-> Unset("")]
    /\ environ.file = [DEBUG |-> Unset(""), DIR |-> SetTo(DefaultDir),
                       OUTPUT |-> SetTo("gpx")]
    /\ conf = [Debug |-> FALSE, Dir |-> OtherDir, Output |-> "gpx"]

\* the points of the page written to out/map.html
WrittenPoints == SelectSeq(files.map.data, LAMBDA e : e.tag = "point")

\* C24: the page GenerateMap has rendered carries one point for each element
\* of its input, in input order, each with the element's Name and Value as
\* they were passed, malformed or not.
C24_MapKeepsEveryPoint ==
    MapRendered =>
        /\ Len(WrittenPoints) = Len(gpsData)
        /\ \A i \in 1..Len(gpsData) :
             /\ WrittenPoints[i].data.Name = gpsData[i].Name
             /\ WrittenPoints[i].data.Value = gpsData[i].Value

C24_Witness ==
    /\ MapRendered
    /\ Len(gpsData) = 2
    /\ gpsData[1].Value = FloatSlice(<<7>>)
    /\ gpsData[2].Value = FloatSlice(<<23522, 488566>>)
    /\ gpsData[1].Name = gpsData[2].Name
    /\ Len(WrittenPoints) = 2

\* C26: every entry of the scan result has a Value of exactly two floats,
\* the longitude and then the latitude of a visited file, so that in a run
\* GenerateGPX logs no "Invalid GPS data" line and leaves no slot of g.Wpt
\* nil.
C26_ScanValuesArePairs ==
    /\ \A k \in 1..Len(gpsData) :
          /\ gpsData[k].Value.typ = "[]float64"
          /\ Len(gpsData[k].Value.val) = 2
          /\ \E a \in 1..Len(visited) :
                /\ gpsData[k].Value.val[1] = GPSLon(visited[a])
                /\ gpsData[k].Value.val[2] = GPSLat(visited[a])
    /\ "Invalid GPS data, skipping" \notin Range(log)
    /\ calls.gpx > 0 =>
          /\ Len(wpt) = Len(gpsData)
          /\ \A i \in 1..Len(wpt) : wpt[i] # NilWpt

C26_Witness ==
    /\ pc = "done"
    /\ calls = [gpx |-> 1, map |-> 0]
    /\ Len(gpsData) = 2
    /\ Len(wpt) = 2
    /\ Len(WrittenWpts) = 2
    /\ log = << "GPX file generated successfully." >>

\* C27: every entry of the scan result has a Name of at least one character,
\* also the entry of a file whose whole name is an image extension.
C27_NameNotEmpty ==
    \A k \in 1..Len(gpsData) : gpsData[k].Name # <<>>

EmptyGPX == << XMLHeader, GPXOpen, GPXClose >>
EmptyPage == << HTMLOpen, HTMLClose >>

\* C28 as stated: a renderer called with the empty sequence always returns,
\* and leaves either no file or the complete empty document.
C28_EmptyInputAlwaysReturns ==
    (gpsData = <<>> /\ calls.gpx + calls.map = 1) =>
        /\ pc # "fatal"
        /\ (pc = "done" /\ calls.gpx = 1) => files.gpx \in {NoFile, File(EmptyGPX)}
        /\ (pc = "done" /\ calls.map = 1) => files.map \in {NoFile, File(EmptyPage)}

\* C28 as amended: a renderer called with the empty sequence logs no
\* diagnostic about its input; when the file is created and nothing fails
\* it returns leaving the empty document (no wpt, no point); when the file
\* cannot be created the process ends with no file; when marshalling,
\* writing or rendering fails it returns leaving a part of the empty document.
C28_EmptyInputRendered ==
    (gpsData = <<>> /\ calls.gpx + calls.map = 1) =>
        /\ "Invalid GPS data, skipping" \notin Range(log)
        /\ GPXRendered => files.gpx = File(EmptyGPX)
        /\ MapRendered => files.map = File(EmptyPage)
        /\ pc = "fatal" =>
              /\ files = [gpx |-> NoFile, map |-> NoFile]
              /\ log \in { <<"Error creating GPX file">>, <<MapCreateErrMsg>> }
        /\ (pc = "done" /\ calls.gpx = 1 /\ ~GPXRendered) =>
              /\ files.gpx.exists
              /\ IsPrefix(files.gpx.data, EmptyGPX)
              /\ files.gpx.data # EmptyGPX
        /\ (pc = "done" /\ calls.map = 1 /\ ~MapRendered) =>
              /\ files.map.exists
              /\ IsPrefix(files.map.data, EmptyPage)
              /\ files.map.data # EmptyPage

C28_Witness ==
    /\ gpsData = <<>>
    /\ GPXRendered
    /\ calls = [gpx |-> 1, map |-> 0]
    /\ files.gpx = File(EmptyGPX)
    /\ WrittenWpts = <<>>

CreateErrMsgs == {"Error creating GPX file", MapCreateErrMsg}

\* C29: a run that starts without the directory out/ never gets to write
\* into it, no step having made it: when its scan result is not empty it ends in
\* the fatal error of the file creation, in gpx and in html mode, having
\* serialized nothing, and when the result is empty it ends with the "No GPS
\* data" line.
C29_OutDirNeverCreated ==
    ~outDir =>
        /\ files = [gpx |-> NoFile, map |-> NoFile]
        /\ pc \notin {"gpx_marshal", "gpx_write", "map_render"}
        /\ buf = <<>>
        /\ (ScanReturned /\ gpsData # <<>> /\ pc \in {"done", "fatal"}) =>
              /\ pc = "fatal"
              /\ log[Len(log)] = IF outputType = "gpx" THEN "Error creating GPX file"
                                 ELSE MapCreateErrMsg
        /\ (ScanReturned /\ gpsData = <<>> /\ pc \in {"done", "fatal"}) => NoDataExit

C29_Witness ==
    /\ ~outDir
    /\ pc = "fatal"
    /\ outputType = "html"
    /\ Len(gpsData) = 2
    /\ calls = [gpx |-> 0, map |-> 1]
    /\ log = << MapCreateErrMsg >>

\* C30: a file of out/ differs from what it was at the start of the run
\* only when the run has entered the renderer of that file: in gpx mode
\* out/map.html, in any other mode out/output.gpx, and after a run without
\* GPS data or one that died in the walk both files are as they were.
C30_OtherFileUntouched ==
    /\ calls.gpx = 0 => files.gpx = prev.gpx
    /\ calls.map = 0 => files.map = prev.map
    /\ (ScanReturned /\ outputType = "gpx") => files.map = prev.map
    /\ (ScanReturned /\ outputType # "gpx") => files.gpx = prev.gpx
    /\ (pc = "done" /\ NoDataMsg \in Range(stdout)) => files = prev
    /\ WalkFatal => files = prev

C30_Witness ==
    /\ pc = "done"
    /\ outputType = "gpx"
    /\ calls = [gpx |-> 1, map |-> 0]
    /\ prev.gpx = File(OldGPX)
    /\ files.gpx # prev.gpx
    /\ files.map = File(OldPage)

====
